---- MODULE Spec2Model ----
(***************************************************************************)
(* PacketLib (src/main.ts): the frame codec and the acknowledgment-tracking *)
(* dispatcher of one node.                                                 *)
(*                                                                         *)
(* main.ts holds two namespace PacketLib blocks (lines 44-297 and 317-524).*)
(* Each declares its own localId, receiveHandler and pendingAcks, defines  *)
(* the exported sendPacket and onReceivePacket and registers a callback    *)
(* with radio.onReceivedBuffer.  A node runs the library of one block;     *)
(* which one is fixed when the node starts (variable variant).  The        *)
(* definitions of the second block carry the suffix 2.                     *)
(*                                                                         *)
(* A Buffer is a sequence of bytes; the source's 0-based offset o is the   *)
(* sequence index o + 1.  A string is the sequence of its character codes. *)
(*                                                                         *)
(* Buffer primitives follow the MakeCode runtime the library is written    *)
(* for (radio, pins.createBuffer, control.deviceSerialNumber, randint):    *)
(*   buf[i]            reads 0 outside the buffer, stores value & 0xFF;    *)
(*   buf.slice(o, n)   second argument is a LENGTH, not an end index: the  *)
(*                     copy starts at min(o, length) and holds             *)
(*                     min(n, length - o) bytes.  The repository uses it   *)
(*                     that way at main.ts:166 (slice(0, payloadLen)) and  *)
(*                     main.ts:445 (slice(offset, payloadLen)).            *)
(***************************************************************************)
EXTENDS Integers, Sequences, FiniteSets, TLC

\* ===== Constants (main.ts:61-64) =====

PROTOCOL_VERSION == 1

FLAG_ACK_REQUIRED == 1

FLAG_IS_ACK == 2

\* largest value of a length byte (main.ts:143)
MaxFieldLen == 255

\* upper end of randint(1, 65535) (main.ts:100)
MaxPacketId == 65535

\* ===== Byte arithmetic =====

Bit(x, k) == (x \div (2 ^ k)) % 2

\* a & b on non-negative integers below 2^16
BitAnd(a, b) ==
    LET t(k) == Bit(a, k) * Bit(b, k) * (2 ^ k)
    IN  t(0) + t(1) + t(2) + t(3) + t(4) + t(5) + t(6) + t(7)
        + t(8) + t(9) + t(10) + t(11) + t(12) + t(13) + t(14) + t(15)

\* a ^ b on bytes, tabulated once
XorTable ==
    [a \in 0..255 |-> [b \in 0..255 |->
        LET t(k) == ((Bit(a, k) + Bit(b, k)) % 2) * (2 ^ k)
        IN  t(0) + t(1) + t(2) + t(3) + t(4) + t(5) + t(6) + t(7)]]

BitXor(a, b) == XorTable[a][b]

Min(a, b) == IF a < b THEN a ELSE b

Max(a, b) == IF a > b THEN a ELSE b

\* ===== Buffer primitives =====

\* pins.createBuffer(size): size zero bytes
CreateBuffer(size) == [k \in 1..size |-> 0]

\* buf[off] as an rvalue
GetByte(buf, off) == IF off >= 0 /\ off < Len(buf) THEN buf[off + 1] ELSE 0

\* buf[off] = v
SetByte(buf, off, v) ==
    IF off >= 0 /\ off < Len(buf) THEN [buf EXCEPT ![off + 1] = v % 256] ELSE buf

\* mutant: the id is stored as one byte
SetUInt8Only(buf, off, v) ==
    IF off >= 0 /\ off + 2 <= Len(buf)
    THEN [buf EXCEPT ![off + 1] = v % 256]
    ELSE buf

\* mutant: the id is stored high byte first
SetUInt16BE(buf, off, v) ==
    IF off >= 0 /\ off + 2 <= Len(buf)
    THEN [buf EXCEPT ![off + 1] = (v \div 256) % 256, ![off + 2] = v % 256]
    ELSE buf

\* buf.setNumber(NumberFormat.UInt16LE, off, v)
SetUInt16LE(buf, off, v) ==
    IF off >= 0 /\ off + 2 <= Len(buf)
    THEN [buf EXCEPT ![off + 1] = v % 256, ![off + 2] = (v \div 256) % 256]
    ELSE buf

\* buf.getNumber(NumberFormat.UInt16LE, off)
GetUInt16LE(buf, off) ==
    IF off >= 0 /\ off + 2 <= Len(buf) THEN buf[off + 1] + 256 * buf[off + 2] ELSE 0

\* buf.slice(offset, length)
Slice(buf, offset, length) ==
    LET o == Min(Len(buf), offset)
        n == Min(IF length < 0 THEN Len(buf) ELSE length, Len(buf) - o)
    IN  [k \in 1..n |-> buf[o + k]]

\* ===== Utility functions =====

\* copyBuffer(src, dst, offset): the value of dst afterwards
CopyBuffer(src, dst, offset) ==
    [k \in 1..Len(dst) |->
        IF k - 1 >= offset /\ k - 1 - offset < Len(src)
        THEN src[k - offset]
        ELSE dst[k]]

\* the loop of computeChecksum: sum ^= buf[i] for lo <= i < hi, starting at 0.
\* XOR is associative, so the fold is evaluated by halves to keep the
\* evaluation shallow on long frames
RECURSIVE XorFold(_, _, _)
XorFold(buf, lo, hi) ==
    IF hi <= lo THEN 0
    ELSE IF hi = lo + 1 THEN buf[lo + 1]
    ELSE LET mid == (lo + hi) \div 2
         IN  BitXor(XorFold(buf, lo, mid), XorFold(buf, mid, hi))

\* mutant: the loop stops one byte early
ComputeChecksumShort(buf, length) ==
    BitAnd(XorFold(buf, 0, Min(length - 1, Len(buf))), 255)

\* computeChecksum(buf, length)
ComputeChecksum(buf, length) ==
    BitAnd(XorFold(buf, 0, Min(length, Len(buf))), 255)

\* writeString(buf, offset, value): the buffer afterwards and the returned size
WriteString(buf, offset, value) ==
    [buf  |-> [k \in 1..Len(buf) |->
                  IF k - 1 = offset THEN Len(value) % 256
                  ELSE IF k - 1 > offset /\ k - 1 - offset <= Len(value)
                       THEN value[k - 1 - offset] % 256
                       ELSE buf[k]],
     size |-> 1 + Len(value)]

\* readString(buf, offset)
ReadString(buf, offset) ==
    LET len0 == GetByte(buf, offset)
        len  == IF offset + 1 + len0 > Len(buf)
                THEN Max(0, Len(buf) - (offset + 1))
                ELSE len0
    IN  [value |-> [i \in 1..len |-> GetByte(buf, offset + i)],
         size  |-> 1 + len]

\* ===== Encoding =====

\* encodePacket(id, destination, payload, flags); local is localId and gen
\* is the value generatePacketId() returns if it is called
EncodePacket(local, id, destination, payload, flags, gen) ==
    LET id1        == IF id = 0 THEN gen ELSE id
        payloadLen == IF Len(payload) > 255 THEN 255 ELSE Len(payload)
        baseSize   == 1 + 1 + 2 + 1 + Len(local) + 1 + Len(destination)
                      + 1 + payloadLen + 1
        b0 == CreateBuffer(baseSize)
        b1 == SetByte(b0, 0, PROTOCOL_VERSION)
        b2 == SetByte(b1, 1, flags)
        b3 == SetUInt16LE(b2, 2, id1)
        w1 == WriteString(b3, 4, local)
        o1 == 4 + w1.size
        w2 == WriteString(w1.buf, o1, destination)
        o2 == o1 + w2.size
        b4 == SetByte(w2.buf, o2, payloadLen)
        o3 == o2 + 1
        b5 == CopyBuffer(Slice(payload, 0, payloadLen), b4, o3)
        o4 == o3 + payloadLen
    IN  SetByte(b5, o4, ComputeChecksum(b5, o4))

\* ===== Decoding =====

\* decodePacket(buf)
DecodePacket(buf) ==
    LET version    == GetByte(buf, 0)
        flags      == GetByte(buf, 1)
        id         == GetUInt16LE(buf, 2)
        src        == ReadString(buf, 4)
        o1         == 4 + src.size
        dst        == ReadString(buf, o1)
        o2         == o1 + dst.size
        payloadLen == GetByte(buf, o2)
        offset     == o2 + 1
        end0       == offset + payloadLen
        end        == IF end0 > Len(buf) - 1 THEN Len(buf) - 1 ELSE end0
    IN  [version     |-> version,
         flags       |-> flags,
         id          |-> id,
         source      |-> src.value,
         destination |-> dst.value,
         payload     |-> Slice(buf, offset, end)]

\* the offsets buf.slice(offset, length) copies from
SliceReads(buf, offset, length) ==
    LET o == Min(Len(buf), offset)
        n == Min(IF length < 0 THEN Len(buf) ELSE length, Len(buf) - o)
    IN  {o + k - 1 : k \in 1..n}

\* the offsets readString(buf, offset) reads: the length prefix and the
\* characters
ReadStringReads(buf, offset) ==
    {offset} \cup {offset + i : i \in 1..(ReadString(buf, offset).size - 1)}

\* the offsets decodePacket(buf) reads, in or out of the buffer
DecodeReads(buf) ==
    LET o1     == 4 + ReadString(buf, 4).size
        o2     == o1 + ReadString(buf, o1).size
        offset == o2 + 1
        end0   == offset + GetByte(buf, o2)
        end    == IF end0 > Len(buf) - 1 THEN Len(buf) - 1 ELSE end0
    IN  {0, 1, 2, 3}
        \cup ReadStringReads(buf, 4)
        \cup ReadStringReads(buf, o1)
        \cup {o2}
        \cup SliceReads(buf, offset, end)

\* ===== Internal state (main.ts:93-95, 353-355) =====

VARIABLES
    variant,         \* 1 or 2: the namespace block this node runs
    localId,         \* control.deviceSerialNumber().toString()
    receiveHandler,  \* the registered handler, 0 for null
    registered,      \* the handler the application passed to its latest
                     \* call of onReceivePacket, 0 before the first call
    pendingAcks,     \* number[]
    prevAcks,        \* pendingAcks when the running operation began
    lastOp,          \* the operation that ran to completion and its
                     \* arguments; NoOp while the event loop is idle
    events,          \* what that operation did, in order: frames handed
                     \* to radio.sendBuffer and handler invocations
    station,         \* several nodes on one radio channel: for each node
                     \* its localId, receiveHandler and pendingAcks
    air,             \* the buffers those nodes have received and not yet
                     \* given to their callbacks, oldest first, each with
                     \* the node that received it
    quota            \* number of sendPacket calls the applications of
                     \* those nodes still make

\* the radio channel and the nodes on it
netVars == <<station, air, quota>>

vars ==
    <<variant, localId, receiveHandler, registered, pendingAcks, prevAcks, lastOp,
      events, station, air, quota>>

NoPacket ==
    [version |-> 0, flags |-> 0, id |-> 0, source |-> <<>>,
     destination |-> <<>>, payload |-> <<>>]

NoOp ==
    [op |-> "idle", id |-> 0, destination |-> <<>>, payload |-> <<>>,
     flags |-> 0, gen |-> 0, present |-> FALSE, buf |-> <<>>,
     handler |-> 0, length |-> 0, node |-> ""]

NoEvent == [kind |-> "none", frame |-> <<>>, handler |-> 0, packet |-> NoPacket, value |-> 0]

\* radio.sendBuffer(frame)
Tx(frame) == [NoEvent EXCEPT !.kind = "tx", !.frame = frame]

\* receiveHandler(packet)
Call(h, packet) == [NoEvent EXCEPT !.kind = "handler", !.handler = h, !.packet = packet]

Star == <<42>>

\* a null dereference stops the callback
Throw == [NoEvent EXCEPT !.kind = "throw"]

\* ===== Public API =====

\* sendPacket(id, payload, destination, flags): the tracker and the events
\* afterwards; gen is what generatePacketId() returns if it is called
SendPacket(local, acks, id, payload, destination, flags, gen) ==
    LET id1 == IF id = 0 THEN gen ELSE id
        pkt == EncodePacket(local, id1, destination, payload, flags, gen)
    IN  [events |-> <<Tx(pkt)>>,
         acks   |-> IF BitAnd(flags, FLAG_ACK_REQUIRED) # 0
                    THEN Append(acks, id1)
                    ELSE acks]

\* ===== Radio integration =====

\* pendingAcks.indexOf(x), 0-based, -1 when absent
RECURSIVE IndexFrom(_, _, _)
IndexFrom(s, x, i) ==
    IF i >= Len(s) THEN -1
    ELSE IF s[i + 1] = x THEN i
    ELSE IndexFrom(s, x, i + 1)

\* mutant: the index of the last occurrence
LastIndexOf(s, x) ==
    IF \E i \in 1..Len(s) : s[i] = x
    THEN (CHOOSE i \in 1..Len(s) : s[i] = x /\ \A j \in (i + 1)..Len(s) : s[j] # x) - 1
    ELSE -1

IndexOf(s, x) == IndexFrom(s, x, 0)

\* mutant: the last entry is removed instead of the one at idx
RemoveAtPop(s, idx) == [k \in 1..(Len(s) - 1) |-> s[k]]

\* pendingAcks.removeAt(idx)
RemoveAt(s, idx) == [k \in 1..(Len(s) - 1) |-> IF k <= idx THEN s[k] ELSE s[k + 1]]

\* the guard of main.ts:268-273: the buffer is present, at least 6 bytes
\* long and its last byte is the checksum of the bytes before it
Accepted(present, buf) ==
    /\ present
    /\ Len(buf) >= 6
    /\ ComputeChecksum(buf, Len(buf) - 1) = buf[Len(buf)]

\* the condition of main.ts:293
Deliverable(local, handler, packet) ==
    /\ handler # 0
    /\ \/ packet.destination = local
       \/ packet.destination = Star
       \/ packet.destination = <<>>

\* main.ts:277-281: the tracker after an acknowledgment for id
ResolveAck(acks, id) ==
    LET idx == IndexOf(acks, id)
    IN  IF idx >= 0 THEN RemoveAt(acks, idx) ELSE acks

\* mutant: the ACK_REQUIRED test comes before the IS_ACK test, so a frame
\* with both bits is answered
OnReceivedBufferAckAnswered(local, handler, acks, present, buf, gen) ==
    IF ~Accepted(present, buf)
    THEN [events |-> <<>>, acks |-> acks]
    ELSE
      LET packet == DecodePacket(buf)
          ack == EncodePacket(local, packet.id, packet.source, <<>>,
                              FLAG_IS_ACK, gen)
          sent == IF BitAnd(packet.flags, FLAG_ACK_REQUIRED) # 0
                  THEN <<Tx(ack)>>
                  ELSE <<>>
          called == IF Deliverable(local, handler, packet)
                    THEN <<Call(handler, packet)>>
                    ELSE <<>>
      IN  IF BitAnd(packet.flags, FLAG_IS_ACK) # 0
          THEN [events |-> sent, acks |-> ResolveAck(acks, packet.id)]
          ELSE [events |-> sent \o called, acks |-> acks]

\* mutant: an acknowledgment is resolved only when addressed to this node
OnReceivedBufferAckForMe(local, handler, acks, present, buf, gen) ==
    IF ~Accepted(present, buf)
    THEN [events |-> <<>>, acks |-> acks]
    ELSE
      LET packet == DecodePacket(buf)
      IN  IF BitAnd(packet.flags, FLAG_IS_ACK) # 0
          THEN [events |-> <<>>,
                acks   |-> IF packet.destination = local
                           THEN ResolveAck(acks, packet.id)
                           ELSE acks]
          ELSE
            LET ack == EncodePacket(local, packet.id, packet.source, <<>>,
                                    FLAG_IS_ACK, gen)
                sent == IF BitAnd(packet.flags, FLAG_ACK_REQUIRED) # 0
                        THEN <<Tx(ack)>>
                        ELSE <<>>
                called == IF Deliverable(local, handler, packet)
                          THEN <<Call(handler, packet)>>
                          ELSE <<>>
            IN  [events |-> sent \o called, acks |-> acks]

\* mutant: the handler runs before the acknowledgment is sent
OnReceivedBufferDeliverFirst(local, handler, acks, present, buf, gen) ==
    IF ~Accepted(present, buf)
    THEN [events |-> <<>>, acks |-> acks]
    ELSE
      LET packet == DecodePacket(buf)
      IN  IF BitAnd(packet.flags, FLAG_IS_ACK) # 0
          THEN [events |-> <<>>, acks |-> ResolveAck(acks, packet.id)]
          ELSE
            LET ack == EncodePacket(local, packet.id, packet.source, <<>>,
                                    FLAG_IS_ACK, gen)
                sent == IF BitAnd(packet.flags, FLAG_ACK_REQUIRED) # 0
                        THEN <<Tx(ack)>>
                        ELSE <<>>
                called == IF Deliverable(local, handler, packet)
                          THEN <<Call(handler, packet)>>
                          ELSE <<>>
            IN  [events |-> called \o sent, acks |-> acks]

\* the callback given to radio.onReceivedBuffer: the tracker and the events
\* afterwards
OnReceivedBuffer(local, handler, acks, present, buf, gen) ==
    IF ~Accepted(present, buf)
    THEN [events |-> <<>>, acks |-> acks]
    ELSE
      LET packet == DecodePacket(buf)
      IN  IF BitAnd(packet.flags, FLAG_IS_ACK) # 0
          THEN [events |-> <<>>, acks |-> ResolveAck(acks, packet.id)]
          ELSE
            LET ack == EncodePacket(local, packet.id, packet.source, <<>>,
                                    FLAG_IS_ACK, gen)
                sent == IF BitAnd(packet.flags, FLAG_ACK_REQUIRED) # 0
                        THEN <<Tx(ack)>>
                        ELSE <<>>
                called == IF Deliverable(local, handler, packet)
                          THEN <<Call(handler, packet)>>
                          ELSE <<>>
            IN  [events |-> sent \o called, acks |-> acks]

\* ===== The second namespace block (main.ts:317-524) =====

\* computeChecksum(buf, length): no bound on i but length, no mask; a read
\* past the end yields 0 and leaves sum as it is
ComputeChecksum2(buf, length) == XorFold(buf, 0, Min(length, Len(buf)))

\* writeString(buf, offset, value) without the bound on the index written
WriteString2(buf, offset, value) ==
    [buf  |-> [k \in 1..Len(buf) |->
                  IF k - 1 = offset THEN Len(value) % 256
                  ELSE IF k - 1 > offset /\ k - 1 - offset <= Len(value)
                       THEN value[k - 1 - offset] % 256
                       ELSE buf[k]],
     size |-> 1 + Len(value)]

\* readString(buf, offset) without the clamp of len
ReadString2(buf, offset) ==
    LET len == GetByte(buf, offset)
    IN  [value |-> [i \in 1..len |-> GetByte(buf, offset + i)],
         size  |-> 1 + len]

\* payload.copyTo(buf, offset): the value of buf afterwards
CopyTo(payload, buf, offset) ==
    [k \in 1..Len(buf) |->
        IF k - 1 >= offset /\ k - 1 - offset < Len(payload)
        THEN payload[k - offset]
        ELSE buf[k]]

\* encodePacket(id, destination, payload, flags): payload.length is not
\* clamped
EncodePacket2(local, id, destination, payload, flags, gen) ==
    LET id1        == IF id = 0 THEN gen ELSE id
        baseSize   == 1 + 1 + 2 + 1 + Len(local) + 1 + Len(destination)
                      + 1 + Len(payload) + 1
        b0 == CreateBuffer(baseSize)
        b1 == SetByte(b0, 0, PROTOCOL_VERSION)
        b2 == SetByte(b1, 1, flags)
        b3 == SetUInt16LE(b2, 2, id1)
        w1 == WriteString2(b3, 4, local)
        o1 == 4 + w1.size
        w2 == WriteString2(w1.buf, o1, destination)
        o2 == o1 + w2.size
        b4 == SetByte(w2.buf, o2, Len(payload))
        o3 == o2 + 1
        b5 == CopyTo(payload, b4, o3)
        o4 == o3 + Len(payload)
    IN  SetByte(b5, o4, ComputeChecksum2(b5, o4))

\* decodePacket(buf)
DecodePacket2(buf) ==
    LET version    == GetByte(buf, 0)
        flags      == GetByte(buf, 1)
        id         == GetUInt16LE(buf, 2)
        src        == ReadString2(buf, 4)
        o1         == 4 + src.size
        dst        == ReadString2(buf, o1)
        o2         == o1 + dst.size
        payloadLen == GetByte(buf, o2)
        offset     == o2 + 1
    IN  [version     |-> version,
         flags       |-> flags,
         id          |-> id,
         source      |-> src.value,
         destination |-> dst.value,
         payload     |-> Slice(buf, offset, payloadLen)]

\* the offsets readString(buf, offset) of the second block reads
ReadStringReads2(buf, offset) ==
    {offset} \cup {offset + i : i \in 1..(ReadString2(buf, offset).size - 1)}

\* the offsets decodePacket(buf) of the second block reads
DecodeReads2(buf) ==
    LET o1     == 4 + ReadString2(buf, 4).size
        o2     == o1 + ReadString2(buf, o1).size
        offset == o2 + 1
    IN  {0, 1, 2, 3}
        \cup ReadStringReads2(buf, 4)
        \cup ReadStringReads2(buf, o1)
        \cup {o2}
        \cup SliceReads(buf, offset, GetByte(buf, o2))

\* sendPacket(id, payload, destination, flags): the id is generated inside
\* encodePacket only, the tracker gets the caller's id
SendPacket2(local, acks, id, payload, destination, flags, gen) ==
    LET pkt == EncodePacket2(local, id, destination, payload, flags, gen)
    IN  [events |-> <<Tx(pkt)>>,
         acks   |-> IF BitAnd(flags, FLAG_ACK_REQUIRED) # 0
                    THEN Append(acks, id)
                    ELSE acks]

\* the guard of main.ts:497-500: only the checksum is compared
Accepted2(present, buf) ==
    ComputeChecksum2(buf, Len(buf) - 1) = GetByte(buf, Len(buf) - 1)

\* the callback given to radio.onReceivedBuffer
OnReceivedBuffer2(local, handler, acks, present, buf, gen) ==
    IF ~present
    THEN [events |-> <<Throw>>, acks |-> acks]
    ELSE IF ~Accepted2(present, buf)
    THEN [events |-> <<>>, acks |-> acks]
    ELSE
      LET packet == DecodePacket2(buf)
      IN  IF BitAnd(packet.flags, FLAG_IS_ACK) # 0
          THEN [events |-> <<>>, acks |-> ResolveAck(acks, packet.id)]
          ELSE
            LET ack == EncodePacket2(local, packet.id, packet.source, <<>>,
                                     FLAG_IS_ACK, gen)
                sent == IF BitAnd(packet.flags, FLAG_ACK_REQUIRED) # 0
                        THEN <<Tx(ack)>>
                        ELSE <<>>
                called == IF handler # 0
                          THEN <<Call(handler, packet)>>
                          ELSE <<>>
            IN  [events |-> sent \o called, acks |-> acks]

\* ===== The library of the block the node runs =====

LibChecksum(v, buf, length) ==
    IF v = 1 THEN ComputeChecksum(buf, length) ELSE ComputeChecksum2(buf, length)

LibEncode(v, local, id, destination, payload, flags, gen) ==
    IF v = 1 THEN EncodePacket(local, id, destination, payload, flags, gen)
    ELSE EncodePacket2(local, id, destination, payload, flags, gen)

LibDecode(v, buf) == IF v = 1 THEN DecodePacket(buf) ELSE DecodePacket2(buf)

LibDecodeReads(v, buf) == IF v = 1 THEN DecodeReads(buf) ELSE DecodeReads2(buf)

LibAccepted(v, present, buf) ==
    IF v = 1 THEN Accepted(present, buf) ELSE present /\ Accepted2(present, buf)

LibSend(v, local, acks, id, payload, destination, flags, gen) ==
    IF v = 1 THEN SendPacket(local, acks, id, payload, destination, flags, gen)
    ELSE SendPacket2(local, acks, id, payload, destination, flags, gen)

LibReceive(v, local, handler, acks, present, buf, gen) ==
    IF v = 1 THEN OnReceivedBuffer(local, handler, acks, present, buf, gen)
    ELSE OnReceivedBuffer2(local, handler, acks, present, buf, gen)

\* ===== Bounds of the model =====

\* sends with ACK_REQUIRED are explored while the tracker is shorter than this
MaxPending == 3

\* number of distinct handler functions the application registers
NumHandlers == 2

\* length of the over-long strings and payloads explored
OverLen == 300

\* longest byte sequence given to computeChecksum on its own
MaxChecksumLen == 3

\* ===== Inputs explored =====

RC == <<82, 67>>

\* a string of n letters
StrOfLen(n) == [i \in 1..n |-> 65 + (i % 26)]

\* a payload of n bytes
BytesOfLen(n) == [i \in 1..n |-> (i * 7 + 250) % 256]

\* device serial numbers as decimal strings: "12" and "-7"
LocalIds == {<<49, 50>>, <<45, 55>>}

\* the serial number of the node of Spec: "12"
NodeId == <<49, 50>>

\* values randint(1, 65535) returns
GenIds == {1, 7, MaxPacketId}

\* one byte with bit b flipped
FlipBit(v, b) == IF Bit(v, b) = 1 THEN v - 2 ^ b ELSE v + 2 ^ b

\* body followed by the XOR of its bytes
Sealed(body) == body \o <<XorFold(body, 0, Len(body))>>

\* a frame as any sender may put it on the air: the layout of README.md:93-104
WireFrame(flags, id, source, destination, payload) ==
    LET body == <<PROTOCOL_VERSION, flags, id % 256, id \div 256>>
                \o <<Len(source)>> \o source
                \o <<Len(destination)>> \o destination
                \o <<Len(payload)>> \o payload
    IN  Sealed(body)

\* frame with its last byte changed
BadChecksum(frame) == [frame EXCEPT ![Len(frame)] = FlipBit(frame[Len(frame)], 0)]

\* frame with one bit of its flags byte changed and the old checksum
BadBody(frame) == [frame EXCEPT ![2] = FlipBit(frame[2], 1)]

SendIds == {0, 7, MaxPacketId}

SendFlags == {0, 1, 3, 253}

SendDestinations == {RC, <<>>}

SendPayloads == {<<>>, <<255>>}

InboundIds == {0, 7, MaxPacketId}

InboundFlags == {0, 1, 2, 3, 253}

\* "12", "*", "", "RC", "123"
InboundDestinations == {NodeId, Star, <<>>, RC, <<49, 50, 51>>}

ValidFrames ==
    {WireFrame(f, i, RC, d, <<255>>) :
        f \in InboundFlags, i \in InboundIds, d \in InboundDestinations}
    \cup {WireFrame(1, 7, <<>>, <<49>>, <<>>), WireFrame(0, 7, <<>>, <<>>, <<>>),
          WireFrame(2, 7, NodeId, NodeId, <<>>)}

\* corrupted frames, and short buffers whose last byte is the XOR of the
\* others
DroppedBuffers ==
    {BadChecksum(WireFrame(f, i, RC, NodeId, <<255>>)) :
        f \in InboundFlags, i \in InboundIds}
    \cup {BadBody(WireFrame(f, i, RC, NodeId, <<255>>)) :
        f \in {1, 2}, i \in InboundIds}
    \cup {<<>>, <<0>>, Sealed(<<1, 2, 7, 0>>), Sealed(<<1, 0, 7, 0>>),
          Sealed(<<1, 1, 7, 0>>)}

\* buffers with a good checksum whose length prefixes exceed the bytes that
\* remain
MalformedFrames ==
    {Sealed(<<1, 0, 7, 0, 200, 82, 67>>),
     Sealed(<<1, 1, 7, 0, 1, 82, 9, 49, 50>>),
     Sealed(<<1, 2, 7, 0, 0, 0>>),
     Sealed(<<1, 0, 7, 0, 0, 0>>)}

InboundBuffers == ValidFrames \cup DroppedBuffers \cup MalformedFrames

\* ===== The node =====

Init ==
    /\ variant \in {1, 2}
    /\ localId = NodeId
    /\ receiveHandler = 0
    /\ registered = 0
    /\ pendingAcks = <<>>
    /\ prevAcks = <<>>
    /\ lastOp = NoOp
    /\ events = <<>>
    /\ station = <<>>
    /\ air = <<>>
    /\ quota = 0

\* the application calls sendPacket
Send(id, payload, destination, flags, gen) ==
    /\ lastOp = NoOp
    /\ BitAnd(flags, FLAG_ACK_REQUIRED) # 0 => Len(pendingAcks) < MaxPending
    /\ LET r == LibSend(variant, localId, pendingAcks, id, payload, destination,
                        flags, gen)
       IN  /\ pendingAcks' = r.acks
           /\ events' = r.events
    /\ prevAcks' = pendingAcks
    /\ lastOp' = [NoOp EXCEPT !.op = "send", !.id = id, !.payload = payload,
                              !.destination = destination, !.flags = flags,
                              !.gen = gen]
    /\ UNCHANGED <<variant, localId, receiveHandler, registered>>
    /\ UNCHANGED netVars

\* mutant: a handler is kept once one is registered
OnReceivePacketOnce(handler) ==
    /\ lastOp = NoOp
    /\ receiveHandler' = IF receiveHandler = 0 THEN handler ELSE receiveHandler
    /\ registered' = handler
    /\ prevAcks' = pendingAcks
    /\ lastOp' = [NoOp EXCEPT !.op = "register", !.handler = handler]
    /\ events' = <<>>
    /\ UNCHANGED <<variant, localId, pendingAcks>>
    /\ UNCHANGED netVars

\* onReceivePacket(handler), main.ts:239-241 and 489-491
OnReceivePacket(handler) ==
    /\ lastOp = NoOp
    /\ receiveHandler' = handler
    /\ registered' = handler
    /\ prevAcks' = pendingAcks
    /\ lastOp' = [NoOp EXCEPT !.op = "register", !.handler = handler]
    /\ events' = <<>>
    /\ UNCHANGED <<variant, localId, pendingAcks>>
    /\ UNCHANGED netVars

\* the radio delivers a buffer (present = FALSE: a null buffer)
Receive(present, buf, gen) ==
    /\ lastOp = NoOp
    /\ LET r == LibReceive(variant, localId, receiveHandler, pendingAcks, present,
                           buf, gen)
       IN  /\ pendingAcks' = r.acks
           /\ events' = r.events
    /\ prevAcks' = pendingAcks
    /\ lastOp' = [NoOp EXCEPT !.op = "receive", !.present = present, !.buf = buf,
                              !.gen = gen]
    /\ UNCHANGED <<variant, localId, receiveHandler, registered>>
    /\ UNCHANGED netVars

\* the operation has returned to the event loop (everything runs to
\* completion on one thread, spec section 5); its record is dropped
Return ==
    /\ lastOp # NoOp
    /\ lastOp' = NoOp
    /\ events' = <<>>
    /\ prevAcks' = pendingAcks
    /\ UNCHANGED <<variant, localId, receiveHandler, registered, pendingAcks>>
    /\ UNCHANGED netVars

\* generatePacketId() is called only when the id is 0
GenFor(id) == IF id = 0 THEN GenIds ELSE {0}

\* the acknowledgment is encoded only for a frame with ACK_REQUIRED and
\* without IS_ACK
AckGen(buf) ==
    IF BitAnd(GetByte(buf, 1), FLAG_ACK_REQUIRED + FLAG_IS_ACK) = FLAG_ACK_REQUIRED
    THEN GenFor(GetUInt16LE(buf, 2)) ELSE {0}

Next ==
    \/ \E id \in SendIds, payload \in SendPayloads,
          destination \in SendDestinations, flags \in SendFlags :
          \E gen \in GenFor(id) : Send(id, payload, destination, flags, gen)
    \/ \E handler \in 1..NumHandlers : OnReceivePacket(handler)
    \/ \E buf \in InboundBuffers :
          \E gen \in AckGen(buf) : Receive(TRUE, buf, gen)
    \/ Receive(FALSE, <<>>, 0)
    \/ Return

Spec == Init /\ [][Next]_vars

\* ===== The codec on its own =====

CodecIds == {0, 42, 256, MaxPacketId}

CodecFlags == {0, 3, 128, 255}

CodecDestinations ==
    {<<>>, RC, StrOfLen(MaxFieldLen), StrOfLen(MaxFieldLen + 1), StrOfLen(OverLen)}

CodecPayloads ==
    {<<>>, <<255>>, BytesOfLen(MaxFieldLen), BytesOfLen(MaxFieldLen + 1),
     BytesOfLen(OverLen)}

RECURSIVE SeqsUpTo(_, _)
SeqsUpTo(S, n) ==
    IF n = 0 THEN {<<>>}
    ELSE LET shorter == SeqsUpTo(S, n - 1)
         IN  shorter \cup {Append(q, v) : q \in shorter, v \in S}

ChecksumBuffers == SeqsUpTo({0, 1, 128, 255}, MaxChecksumLen)

CodecInit ==
    /\ variant \in {1, 2}
    /\ localId \in LocalIds
    /\ receiveHandler = 0
    /\ registered = 0
    /\ pendingAcks = <<>>
    /\ prevAcks = <<>>
    /\ lastOp = NoOp
    /\ events = <<>>
    /\ station = <<>>
    /\ air = <<>>
    /\ quota = 0

\* encodePacket is applied to the arguments and decodePacket to its result
Encode(id, destination, payload, flags, gen) ==
    /\ lastOp = NoOp
    /\ lastOp' = [NoOp EXCEPT !.op = "encode", !.id = id, !.payload = payload,
                              !.destination = destination, !.flags = flags,
                              !.gen = gen]
    /\ LET frame == LibEncode(variant, localId, id, destination, payload, flags, gen)
       IN  events' = <<[NoEvent EXCEPT !.kind = "encoded", !.frame = frame,
                                        !.packet = LibDecode(variant, frame)]>>
    /\ UNCHANGED <<variant, localId, receiveHandler, registered, pendingAcks, prevAcks>>
    /\ UNCHANGED netVars

\* computeChecksum is applied to a buffer and a length
Checksum(buf, length) ==
    /\ lastOp = NoOp
    /\ lastOp' = [NoOp EXCEPT !.op = "checksum", !.buf = buf, !.length = length]
    /\ events' = <<[NoEvent EXCEPT !.kind = "checksum",
                                   !.value = LibChecksum(variant, buf, length)]>>
    /\ UNCHANGED <<variant, localId, receiveHandler, registered, pendingAcks, prevAcks>>
    /\ UNCHANGED netVars

CodecNext ==
    \/ \E id \in CodecIds, destination \in CodecDestinations,
          payload \in CodecPayloads, flags \in CodecFlags :
          \E gen \in GenFor(id) : Encode(id, destination, payload, flags, gen)
    \/ \E buf \in ChecksumBuffers :
          \E length \in 0..(Len(buf) + 1) : Checksum(buf, length)
    \/ Return

CodecSpec == CodecInit /\ [][CodecNext]_vars

\* ===== Several nodes on one radio channel =====

\* sendPacket calls the applications make in all
MaxSends == 2

\* control.deviceSerialNumber().toString() of each node: "12", "-7", "123"
Serial == [A |-> <<49, 50>>, B |-> <<45, 55>>, C |-> <<49, 50, 51>>]

NetIds == {0, 7}

\* PacketFlags.AckRequired (main.ts:88): the applications send packets
\* that ask for an acknowledgment
NetFlags == {FLAG_ACK_REQUIRED}

\* values randint(1, 65535) returns on these nodes: one equal to the id
\* the applications choose themselves, one different
NetGenIds == {7, MaxPacketId}

NetGenFor(id) == IF id = 0 THEN NetGenIds ELSE {0}

NetDestinations == {Star}

\* the frames among events, in the order they were handed to radio.sendBuffer
FramesOf(evs) ==
    LET txs == SelectSeq(evs, LAMBDA e : e.kind = "tx")
    IN  [i \in 1..Len(txs) |-> txs[i].frame]

NodeOrder == <<"A", "B", "C">>

\* the nodes in range of a transmission of node from
Receivers(names, from) == SelectSeq(NodeOrder, LAMBDA n : n \in names /\ n # from)

\* radio.sendBuffer on a broadcast channel: every node but the sender
\* receives each frame, uncorrupted
RECURSIVE Broadcast(_, _, _, _)
Broadcast(queue, names, from, frames) ==
    IF frames = <<>> THEN queue
    ELSE LET to == Receivers(names, from)
             copies == [i \in 1..Len(to) |-> [to |-> to[i], frame |-> Head(frames)]]
         IN  Broadcast(queue \o copies, names, from, Tail(frames))

\* the nodes named start with an empty tracker and a handler registered
NetInit(names) ==
    /\ variant \in {1, 2}
    /\ localId = NodeId
    /\ receiveHandler = 0
    /\ registered = 0
    /\ pendingAcks = <<>>
    /\ prevAcks = <<>>
    /\ lastOp = NoOp
    /\ events = <<>>
    /\ station = [n \in names |->
                      [localId |-> Serial[n], receiveHandler |-> 1,
                       pendingAcks |-> <<>>]]
    /\ air = <<>>
    /\ quota = MaxSends

\* the application of node n calls sendPacket
StationSend(n, id, destination, flags, gen) ==
    /\ quota > 0
    /\ LET r == LibSend(variant, station[n].localId, station[n].pendingAcks, id,
                        <<255>>, destination, flags, gen)
       IN  /\ station' = [station EXCEPT ![n].pendingAcks = r.acks]
           /\ air' = Broadcast(air, DOMAIN station, n, FramesOf(r.events))
           /\ events' = r.events
    /\ quota' = quota - 1
    /\ prevAcks' = station[n].pendingAcks
    /\ lastOp' = [NoOp EXCEPT !.op = "send", !.node = n, !.id = id,
                              !.payload = <<255>>, !.destination = destination,
                              !.flags = flags, !.gen = gen]
    /\ UNCHANGED <<variant, localId, receiveHandler, registered, pendingAcks>>

\* the radio of node n gives buffer buf, the oldest one waiting, to the
\* callback
StationReceive(n, buf, gen) ==
    /\ LET r == LibReceive(variant, station[n].localId, station[n].receiveHandler,
                           station[n].pendingAcks, TRUE, buf, gen)
       IN  /\ station' = [station EXCEPT ![n].pendingAcks = r.acks]
           /\ air' = Broadcast(Tail(air), DOMAIN station, n, FramesOf(r.events))
           /\ events' = r.events
    /\ lastOp' = [NoOp EXCEPT !.op = "receive", !.node = n, !.present = TRUE,
                              !.buf = buf, !.gen = gen]
    /\ prevAcks' = station[n].pendingAcks
    /\ UNCHANGED <<variant, localId, receiveHandler, registered, pendingAcks, quota>>

\* the callbacks run one at a time, in the order the buffers were received
Deliver ==
    /\ air # <<>>
    /\ \E gen \in AckGen(Head(air).frame) :
          StationReceive(Head(air).to, Head(air).frame, gen)

NetNext ==
    \/ \E n \in DOMAIN station, id \in NetIds, destination \in NetDestinations,
          flags \in NetFlags :
          \E gen \in NetGenFor(id) : StationSend(n, id, destination, flags, gen)
    \/ Deliver

PairInit == NetInit({"A", "B"})

\* two nodes; the radio runtime runs the callback for every buffer received
PairSpec == PairInit /\ [][NetNext]_vars /\ WF_vars(Deliver)

TrioInit == NetInit({"A", "B", "C"})

\* three nodes
TrioSpec == TrioInit /\ [][NetNext]_vars /\ WF_vars(Deliver)

\* ===== Vocabulary of the properties =====

\* frames handed to radio.sendBuffer by the operation, in order
Sent == SelectSeq(events, LAMBDA e : e.kind = "tx")

\* handler invocations of the operation, in order
Calls == SelectSeq(events, LAMBDA e : e.kind = "handler")

Range(s) == {s[i] : i \in 1..Len(s)}

Count(s, x) == Cardinality({i \in 1..Len(s) : s[i] = x})

HasFlag(flags, bit) == BitAnd(flags, bit) # 0

\* the id a frame carries at offsets 2-3
WireId(frame) == frame[3] + 256 * frame[4]

\* the flags a frame carries at offset 1
WireFlags(frame) == frame[2]

\* the last byte is the XOR of all bytes before it
LastByteOk(buf) == buf[Len(buf)] = XorFold(buf, 0, Len(buf) - 1)

\* the buffer passes the length check and the checksum check
PassesChecks(present, buf) == present /\ Len(buf) >= 6 /\ LastByteOk(buf)

\* the last operation dispatched an inbound buffer that passes the checks
Dispatched == lastOp.op = "receive" /\ PassesChecks(lastOp.present, lastOp.buf)

\* the id the last send or encode put on the wire
FinalId == IF lastOp.id = 0 THEN lastOp.gen ELSE lastOp.id

\* ===== C1 =====

\* C1 (as claimed): for every id in 1..65535, destination of at most 255
\* characters, payload of at most 255 bytes and flags byte, decoding the
\* encoded frame returns the same id, destination, payload and flags, and
\* the local identity as source.
C1_RoundTrip ==
    (/\ lastOp.op = "encode"
     /\ lastOp.id \in 1..MaxPacketId
     /\ Len(lastOp.destination) <= MaxFieldLen
     /\ Len(lastOp.payload) <= MaxFieldLen
     /\ lastOp.flags \in 0..255)
    => LET p == events[1].packet
       IN  /\ p.id = lastOp.id
           /\ p.destination = lastOp.destination
           /\ p.payload = lastOp.payload
           /\ p.flags = lastOp.flags
           /\ p.source = localId

\* ===== C2 =====

\* C2 (as claimed): an inbound frame that passes the checks, with
\* ACK_REQUIRED set and IS_ACK clear, whatever its id, makes the dispatcher
\* hand exactly one frame to the transport; that frame decodes to the
\* received id, flags IS_ACK, destination the received source, source the
\* local identity and an empty payload.
C2_AutoAck ==
    (/\ Dispatched
     /\ HasFlag(WireFlags(lastOp.buf), FLAG_ACK_REQUIRED)
     /\ ~HasFlag(WireFlags(lastOp.buf), FLAG_IS_ACK))
    => /\ Len(Sent) = 1
       /\ LET ack == LibDecode(variant, Sent[1].frame)
          IN  /\ ack.id = WireId(lastOp.buf)
              /\ ack.flags = FLAG_IS_ACK
              /\ ack.destination = LibDecode(variant, lastOp.buf).source
              /\ ack.source = localId
              /\ ack.payload = <<>>

\* ===== C3 =====

\* C3: after send(id, payload, destination, flags with ACK_REQUIRED) with id
\* in 1..65535 the tracker contains id; dispatching a frame that passes the
\* checks and has IS_ACK set keeps every tracked id other than the one it
\* carries, and leaves the tracker without the id it carries when that id
\* was tracked at most once.
C3_AckLifecycle ==
    /\ (/\ lastOp.op = "send"
        /\ lastOp.id \in 1..MaxPacketId
        /\ HasFlag(lastOp.flags, FLAG_ACK_REQUIRED))
       => lastOp.id \in Range(pendingAcks)
    /\ (Dispatched /\ HasFlag(WireFlags(lastOp.buf), FLAG_IS_ACK))
       => /\ \A x \in Range(prevAcks) :
                x # WireId(lastOp.buf) => x \in Range(pendingAcks)
          /\ Count(prevAcks, WireId(lastOp.buf)) <= 1
                => WireId(lastOp.buf) \notin Range(pendingAcks)

\* an acknowledgment for 7 arrived while 7 and 65535 were pending
C3_Witness ==
    /\ Dispatched
    /\ HasFlag(WireFlags(lastOp.buf), FLAG_IS_ACK)
    /\ WireId(lastOp.buf) = 7
    /\ prevAcks = <<7, MaxPacketId>>
    /\ pendingAcks = <<MaxPacketId>>

\* ===== C4 =====

\* C4 (as claimed): for an inbound frame that passes the checks and has
\* IS_ACK clear, with a handler registered, the handler is invoked exactly
\* once with the decoded packet if the frame's destination is the local
\* identity, "*" or "", and is not invoked for any other destination.
C4_DestinationFiltering ==
    (/\ Dispatched
     /\ ~HasFlag(WireFlags(lastOp.buf), FLAG_IS_ACK)
     /\ receiveHandler # 0)
    => LET p == LibDecode(variant, lastOp.buf)
       IN  Calls = IF p.destination \in {localId, Star, <<>>}
                   THEN <<Call(receiveHandler, p)>>
                   ELSE <<>>

\* ===== C5 =====

\* C5 (as claimed): dispatching a buffer that is absent, shorter than 6
\* bytes, or whose last byte differs from the XOR of the bytes before it
\* invokes no handler, leaves the tracker unchanged and hands no frame to
\* the transport.
C5_SilentDrop ==
    (/\ lastOp.op = "receive"
     /\ ~PassesChecks(lastOp.present, lastOp.buf))
    => /\ Calls = <<>>
       /\ Sent = <<>>
       /\ pendingAcks = prevAcks

\* ===== C6 =====

\* C6 (as claimed): for every send with ACK_REQUIRED set and id in
\* 0..65535, id 0 included, the id appended to the tracker is the id carried
\* by the frame handed to the transport in that call.
C6_TrackedIdIsWireId ==
    (/\ lastOp.op = "send"
     /\ lastOp.id \in 0..MaxPacketId
     /\ HasFlag(lastOp.flags, FLAG_ACK_REQUIRED))
    => /\ Len(Sent) = 1
       /\ pendingAcks = Append(prevAcks, WireId(Sent[1].frame))

\* ===== C7 =====

\* C7: every frame the node hands to the transport, by send with a caller
\* id in 0..65535 or as an automatic acknowledgment, carries an id in
\* 1..65535; send puts the generated id on the wire when the caller's id is
\* 0 and the caller's id unchanged otherwise.
C7_WireIdNeverZero ==
    /\ \A i \in 1..Len(Sent) : WireId(Sent[i].frame) \in 1..MaxPacketId
    /\ lastOp.op = "send"
       => /\ Len(Sent) = 1
          /\ WireId(Sent[1].frame) = FinalId
          /\ lastOp.id # 0 => WireId(Sent[1].frame) = lastOp.id

\* a frame with id 0 and ACK_REQUIRED was acknowledged
C7_Witness ==
    /\ Dispatched
    /\ WireId(lastOp.buf) = 0
    /\ Len(Sent) = 1
    /\ WireId(Sent[1].frame) = MaxPacketId

\* ===== C8 =====

\* C8 (as claimed): for a payload longer than 255 bytes (with an in-range
\* destination) the encoded frame has payload-length byte 255, its size
\* counts 255 payload bytes, its checksum is valid and its decoded payload
\* is the first 255 bytes of the input.
C8_PayloadTruncation ==
    (/\ lastOp.op = "encode"
     /\ Len(lastOp.payload) > MaxFieldLen
     /\ Len(lastOp.destination) <= MaxFieldLen)
    => LET frame == events[1].frame
           at    == 4 + 1 + Len(localId) + 1 + Len(lastOp.destination)
       IN  /\ Len(frame) = 8 + Len(localId) + Len(lastOp.destination) + MaxFieldLen
           /\ GetByte(frame, at) = MaxFieldLen
           /\ LastByteOk(frame)
           /\ events[1].packet.payload = SubSeq(lastOp.payload, 1, MaxFieldLen)

\* ===== C9 =====

\* C9: for a destination and a payload of at most 255 bytes (the source is
\* the local identity) the encoded frame has length
\* 8 + |source| + |destination| + |payload| and is: version 1, flags, the id
\* low byte first, source length and bytes, destination length and bytes,
\* payload length and bytes, and the XOR of all bytes before as last byte.
C9_WireLayout ==
    (/\ lastOp.op = "encode"
     /\ Len(lastOp.destination) <= MaxFieldLen
     /\ Len(lastOp.payload) <= MaxFieldLen)
    => LET frame == events[1].frame
           body  == <<1, lastOp.flags, FinalId % 256, FinalId \div 256>>
                    \o <<Len(localId)>> \o localId
                    \o <<Len(lastOp.destination)>> \o lastOp.destination
                    \o <<Len(lastOp.payload)>> \o lastOp.payload
       IN  /\ Len(frame) = 8 + Len(localId) + Len(lastOp.destination)
                           + Len(lastOp.payload)
           /\ SubSeq(frame, 1, Len(frame) - 1) = body
           /\ LastByteOk(frame)

\* id 256, whose low and high bytes differ, was encoded with a destination
\* and a payload
C9_Witness ==
    /\ lastOp.op = "encode"
    /\ lastOp.id = 256
    /\ lastOp.destination = RC
    /\ lastOp.payload = BytesOfLen(MaxFieldLen)
    /\ GetByte(events[1].frame, 2) = 0
    /\ GetByte(events[1].frame, 3) = 1
    /\ Len(events[1].frame) = 8 + Len(localId) + 2 + MaxFieldLen

\* ===== C10 =====

\* buf with bit b of the byte at offset i flipped
FlipAt(buf, i, b) == [buf EXCEPT ![i + 1] = FlipBit(buf[i + 1], b)]

\* C10: the checksum of the first length bytes of a buffer is a byte;
\* flipping one bit of one byte in the checked range changes it, and
\* flipping the same bit of two different bytes in the checked range leaves
\* it unchanged.
C10_ChecksumSensitivity ==
    lastOp.op = "checksum"
    => LET buf     == lastOp.buf
           n       == lastOp.length
           c       == events[1].value
           checked == 0..(Min(n, Len(buf)) - 1)
       IN  /\ c \in 0..255
           /\ \A i \in checked, b \in 0..7 :
                 LibChecksum(variant, FlipAt(buf, i, b), n) # c
           /\ \A i \in checked, j \in checked, b \in 0..7 :
                 i # j => LibChecksum(variant, FlipAt(FlipAt(buf, i, b), j, b), n) = c

\* the checksum of <<128, 1, 255>> over its first two bytes was computed
C10_Witness ==
    /\ lastOp.op = "checksum"
    /\ lastOp.buf = <<128, 1, 255>>
    /\ lastOp.length = 2
    /\ events[1].value = 129

\* ===== C11 =====

\* s without its element at position i
Without(s, i) == SubSeq(s, 1, i - 1) \o SubSeq(s, i + 1, Len(s))

\* C11: dispatching an inbound frame that passes the checks and has IS_ACK
\* set, whatever its other flag bits, id and destination, invokes no
\* handler and hands no frame to the transport; the tracker is either
\* unchanged or has lost one entry equal to the frame's id.
C11_AckStopsAtTracker ==
    (Dispatched /\ HasFlag(WireFlags(lastOp.buf), FLAG_IS_ACK))
    => /\ events = <<>>
       /\ \/ pendingAcks = prevAcks
          \/ \E i \in 1..Len(prevAcks) :
                /\ prevAcks[i] = WireId(lastOp.buf)
                /\ pendingAcks = Without(prevAcks, i)

\* a frame addressed to the node with IS_ACK and ACK_REQUIRED both set and
\* a pending id arrived while a handler was registered
C11_Witness ==
    /\ Dispatched
    /\ WireFlags(lastOp.buf) = 3
    /\ WireId(lastOp.buf) = 7
    /\ LibDecode(variant, lastOp.buf).destination = localId
    /\ receiveHandler # 0
    /\ prevAcks = <<7>>
    /\ pendingAcks = <<>>
    /\ events = <<>>

\* ===== C12 =====

\* the destination of the frame is the local identity, "*" or ""
ForThisNode(buf) == LibDecode(variant, buf).destination \in {localId, Star, <<>>}

\* C12: dispatching a frame that passes the checks, has IS_ACK clear and is
\* addressed to the node (its identity, "*" or "") invokes exactly once the
\* handler of the latest registration, with the decoded packet, and no
\* other handler; while nothing has been registered it invokes nothing and
\* raises no error.
C12_SingleHandler ==
    (/\ Dispatched
     /\ ~HasFlag(WireFlags(lastOp.buf), FLAG_IS_ACK)
     /\ ForThisNode(lastOp.buf))
    => /\ registered # 0
          => Calls = <<Call(registered, LibDecode(variant, lastOp.buf))>>
       /\ registered = 0 => Calls = <<>>
       /\ \A i \in 1..Len(events) : events[i].kind # "throw"

\* handler 2 is the latest registration, an id is pending, and a frame
\* addressed to "*" was delivered to handler 2
C12_Witness ==
    /\ Dispatched
    /\ LibDecode(variant, lastOp.buf).destination = Star
    /\ registered = 2
    /\ Len(Calls) = 1
    /\ Calls[1].handler = 2
    /\ Len(pendingAcks) > 0

\* ===== C13 =====

\* C13: dispatching a frame that passes the checks, with ACK_REQUIRED set
\* and IS_ACK clear, hands one acknowledgment frame (flags IS_ACK) to the
\* transport whatever the frame's destination and whether or not a handler
\* is registered, and that is the first thing the dispatcher does: a
\* handler invocation for the frame comes after it.
C13_AckBeforeDelivery ==
    (/\ Dispatched
     /\ HasFlag(WireFlags(lastOp.buf), FLAG_ACK_REQUIRED)
     /\ ~HasFlag(WireFlags(lastOp.buf), FLAG_IS_ACK))
    => /\ Len(Sent) = 1
       /\ Len(events) >= 1
       /\ events[1].kind = "tx"
       /\ WireFlags(events[1].frame) = FLAG_IS_ACK
       /\ \A i \in 1..Len(events) : events[i].kind = "handler" => i > 1

\* a frame addressed to "RC" with ACK_REQUIRED arrived at node "12" while
\* no handler was registered, and was acknowledged
C13_Witness ==
    /\ Dispatched
    /\ WireFlags(lastOp.buf) = FLAG_ACK_REQUIRED
    /\ LibDecode(variant, lastOp.buf).destination = RC
    /\ receiveHandler = 0
    /\ Len(events) = 1
    /\ events[1].kind = "tx"

\* ===== C14 =====

\* C14 (as claimed): for a destination longer than 255 characters the
\* encoded frame holds, after the source, a length byte of 255 and the
\* first 255 characters of the destination; the frame length counts 255
\* destination bytes; its checksum is valid; the decoded destination is the
\* first 255 characters and the decoded payload is the payload encode wrote
\* (the input, cut to 255 bytes).
C14_StringTruncation ==
    (/\ lastOp.op = "encode"
     /\ Len(lastOp.destination) > MaxFieldLen)
    => LET frame   == events[1].frame
           at      == 4 + 1 + Len(localId)
           head    == SubSeq(lastOp.destination, 1, MaxFieldLen)
           written == SubSeq(lastOp.payload, 1, Min(Len(lastOp.payload), MaxFieldLen))
       IN  /\ GetByte(frame, at) = MaxFieldLen
           /\ Slice(frame, at + 1, MaxFieldLen) = head
           /\ Len(frame) = 8 + Len(localId) + MaxFieldLen + Len(written)
           /\ LastByteOk(frame)
           /\ events[1].packet.destination = head
           /\ events[1].packet.payload = written

\* ===== C15 =====

\* C15 (as claimed): in every reachable state the tracker contains each
\* id at most once.
C15_TrackerUnique ==
    \A x \in Range(pendingAcks) : Count(pendingAcks, x) <= 1

\* ===== C16 =====

\* position of the earliest occurrence of x in s, 0 when there is none
FirstAt(s, x) ==
    IF x \in Range(s)
    THEN CHOOSE i \in 1..Len(s) : s[i] = x /\ \A j \in 1..(i - 1) : s[j] # x
    ELSE 0

\* C16: dispatching a frame that passes the checks and has IS_ACK set, with
\* id x, removes from the tracker the earliest occurrence of x and nothing
\* else, the other entries (other ids, later occurrences of x) keeping
\* their order; when x is not tracked the tracker is unchanged.
C16_RemovesEarliestOnly ==
    (Dispatched /\ HasFlag(WireFlags(lastOp.buf), FLAG_IS_ACK))
    => LET x == WireId(lastOp.buf)
       IN  pendingAcks = IF x \in Range(prevAcks)
                         THEN Without(prevAcks, FirstAt(prevAcks, x))
                         ELSE prevAcks

\* an acknowledgment for 7 arrived while 7 was tracked twice with another
\* id in between
C16_Witness ==
    /\ Dispatched
    /\ HasFlag(WireFlags(lastOp.buf), FLAG_IS_ACK)
    /\ WireId(lastOp.buf) = 7
    /\ prevAcks = <<7, MaxPacketId, 7>>
    /\ pendingAcks = <<MaxPacketId, 7>>

\* ===== C17 =====

\* C17 (as claimed): the tracker changes only in two ways: a send with
\* ACK_REQUIRED appends one id, and the dispatch of a frame that passes the
\* checks and has IS_ACK set removes at most one entry, equal to the
\* frame's id.  A send without ACK_REQUIRED, a handler registration, a
\* dropped buffer, a frame without IS_ACK and an IS_ACK frame carrying
\* another id leave every tracked id in place.
C17_NoExpiry ==
    /\ lastOp.op = "send"
       => IF HasFlag(lastOp.flags, FLAG_ACK_REQUIRED)
          THEN /\ Len(pendingAcks) = Len(prevAcks) + 1
               /\ SubSeq(pendingAcks, 1, Len(prevAcks)) = prevAcks
          ELSE pendingAcks = prevAcks
    /\ lastOp.op \in {"register", "idle"} => pendingAcks = prevAcks
    /\ lastOp.op = "receive"
       => IF Dispatched /\ HasFlag(WireFlags(lastOp.buf), FLAG_IS_ACK)
          THEN /\ \A x \in Range(prevAcks) :
                     x # WireId(lastOp.buf)
                     => Count(pendingAcks, x) = Count(prevAcks, x)
               /\ Range(pendingAcks) \subseteq Range(prevAcks)
               /\ Len(pendingAcks) >= Len(prevAcks) - 1
          ELSE pendingAcks = prevAcks

\* ===== C18 =====

\* C18 (as claimed): for every inbound buffer that passes the length and
\* checksum checks, malformed ones included, every offset decode reads as a
\* field lies below length - 1: inside the buffer and before the final
\* checksum byte.
C18_DecodeInsideBody ==
    Dispatched
    => \A i \in LibDecodeReads(variant, lastOp.buf) : i < Len(lastOp.buf) - 1

\* ===== C19 =====

\* no node has a received buffer waiting
Quiet == air = <<>>

\* C19 (as claimed), in the form a finite run decides: with two nodes A
\* and B and a radio that delivers every frame to the other node, whenever
\* no frame is in flight A's tracker is empty (an id still tracked then
\* stays for ever, as only a frame can remove it); and the traffic dies
\* out: a dispatched frame makes the node transmit at most one frame, an
\* acknowledgment, and a dispatched acknowledgment makes it transmit none.
C19_EndToEndAck ==
    /\ Quiet => station["A"].pendingAcks = <<>>
    /\ lastOp.op = "receive"
       => /\ Len(Sent) <= 1
          /\ \A i \in 1..Len(Sent) : HasFlag(WireFlags(Sent[i].frame), FLAG_IS_ACK)
          /\ HasFlag(WireFlags(lastOp.buf), FLAG_IS_ACK) => Sent = <<>>

\* ===== C20 =====

\* C20: with three nodes on a broadcast channel, a node that dispatches a
\* frame passing the checks with IS_ACK set and an id x it has pending
\* loses one entry x from its tracker, whoever the frame's source is and
\* whomever it is addressed to; so the acknowledgment B sends in reply to
\* A's packet x resolves x at C when C has x pending.
C20_AckIgnoresAddressing ==
    (/\ lastOp.op = "receive"
     /\ PassesChecks(lastOp.present, lastOp.buf)
     /\ HasFlag(WireFlags(lastOp.buf), FLAG_IS_ACK))
    => LET x     == WireId(lastOp.buf)
           after == station[lastOp.node].pendingAcks
       IN  /\ x \in Range(prevAcks) => Count(after, x) = Count(prevAcks, x) - 1
           /\ \A y \in Range(prevAcks) : y # x => Count(after, y) = Count(prevAcks, y)

\* C had 7 pending and dispatched the acknowledgment for 7 that B
\* addressed to A
C20_Witness ==
    /\ lastOp.op = "receive"
    /\ lastOp.node = "C"
    /\ WireFlags(lastOp.buf) = FLAG_IS_ACK
    /\ WireId(lastOp.buf) = 7
    /\ LibDecode(variant, lastOp.buf).source = Serial["B"]
    /\ LibDecode(variant, lastOp.buf).destination = Serial["A"]
    /\ prevAcks = <<7>>
    /\ station["C"].pendingAcks = <<>>

====
